---- MODULE Spec2Model ----
(***************************************************************************)
(* Model of the generic undirected graph store (src/src/graph.rs) and of   *)
(* the traversal and path-finding algorithms built on it                   *)
(* (src/src/graph_algo/search.rs, dijkstra.rs, astar.rs).                  *)
(*                                                                         *)
(* Option<T> is modelled as a sequence: None is <<>>, Some(v) is <<v>>.    *)
(* A Vec indexed by usize is a function on 0 .. len-1; an index outside    *)
(* that range is a panic of the operation, recorded as status "panic".     *)
(***************************************************************************)
EXTENDS Integers, Sequences, FiniteSets, TLC

\* ---- bounds of the model ------------------------------------------------
\* The store specification (Spec): at most MaxNodes node entries and at most
\* MaxEdges edge entries. remove_node is called with the identifiers
\* 0 .. MaxNodes - 1, add_edge and remove_edge with endpoints from Endpoints
\* (whether or not they are nodes).
MaxNodes == 3
MaxEdges == 2
Endpoints == {0, 1, 2}
\* Node values and edge values used as arguments of the store operations.
Values == {1, 2}
EdgeValues == {1, 2}

VARIABLES
  nodes,   \* Graph.nodes : BTreeMap<usize, V>, a function id -> value
  edges,   \* Graph.edges : BTreeMap<Edge, E>, a function <<lo, hi>> -> value
  issued,  \* history: the identifiers add_node has returned so far
  last,    \* history: the last store operation, its arguments and its result
  run      \* the traversal / search call in progress or finished

vars == <<nodes, edges, issued, last, run>>

None == <<>>
Some(v) == <<v>>

\* ---- graph.rs -----------------------------------------------------------

\* A key that keeps the endpoints in the order of the call.
EdgeNewDirected(from, to) == <<from, to>>

\* Edge::new : the canonical key, smallest endpoint first.
EdgeNew(from, to) == IF from <= to THEN <<from, to>> ELSE <<to, from>>

\* A touches that looks at the first endpoint only.
touchesFirst(edge, node) == edge[1] = node

\* Edge::touches
touches(edge, node) == edge[1] = node \/ edge[2] = node

\* #[derive(PartialOrd, Ord)] on Edge(usize, usize): lexicographic order.
EdgeLess(e, f) == e[1] < f[1] \/ (e[1] = f[1] /\ e[2] < f[2])

num_nodes == Cardinality(DOMAIN nodes)
num_edges == Cardinality(DOMAIN edges)

get_node(index) == IF index \in DOMAIN nodes THEN Some(nodes[index]) ELSE None

get_edge(from, to) ==
  IF EdgeNew(from, to) \in DOMAIN edges THEN Some(edges[EdgeNew(from, to)]) ELSE None

are_neighbors(from, to) == get_edge(from, to) # None

\* An insert that keeps the value of a key already present.
MapInsertKeep(m, k, v) ==
  [x \in (DOMAIN m) \cup {k} |-> IF x \in DOMAIN m THEN m[x] ELSE v]

\* BTreeMap::insert on a function: overwrite or extend.
MapInsert(m, k, v) == [x \in (DOMAIN m) \cup {k} |-> IF x = k THEN v ELSE m[x]]

\* BTreeMap::remove / retain on a function: restrict the domain.
MapRestrict(m, keep) == [x \in keep |-> m[x]]

\* A set of edge keys in descending order.
RECURSIVE SortedEdgesDescending(_)
SortedEdgesDescending(S) ==
  IF S = {} THEN <<>>
  ELSE LET m == CHOOSE e \in S : \A f \in S : e = f \/ f[1] < e[1] \/ (f[1] = e[1] /\ f[2] < e[2])
       IN  <<m>> \o SortedEdgesDescending(S \ {m})

\* A set of edge keys in the iteration order of the BTreeMap (ascending).
RECURSIVE SortedEdges(_)
SortedEdges(S) ==
  IF S = {} THEN <<>>
  ELSE LET m == CHOOSE e \in S : \A f \in S : e = f \/ EdgeLess(e, f)
       IN  <<m>> \o SortedEdges(S \ {m})

\* neighbors, lines 55-62: the other endpoint of an edge touching index,
\* with the edge value.
NeighborOf(index, e) ==
  IF e[1] = index THEN <<e[2], edges[e]>> ELSE <<e[1], edges[e]>>

\* A neighbors that follows an edge only from its smaller endpoint.
neighborsOneWay(index) ==
  LET es == SortedEdges({e \in DOMAIN edges : e[1] = index})
  IN  [i \in 1 .. Len(es) |-> NeighborOf(index, es[i])]

\* Graph::neighbors : the edges touching index, in the order of the edge
\* map, each as <<other endpoint, edge value>>.
neighbors(index) ==
  LET es == SortedEdges({e \in DOMAIN edges : touches(e, index)})
  IN  [i \in 1 .. Len(es) |-> NeighborOf(index, es[i])]

\* The node map after add_node(data), and the identifier it returns.
AddNodeIndex == num_nodes
AddNodeMap(data) == MapInsert(nodes, AddNodeIndex, data)

Idle == [alg |-> "none"]

\* Graph::add_node
add_node(data) ==
  /\ run = Idle
  /\ num_nodes < MaxNodes
  /\ nodes' = AddNodeMap(data)
  /\ issued' = issued \cup {AddNodeIndex}
  /\ last' = [op |-> "add_node", a |-> AddNodeIndex, b |-> 0, v |-> data,
              ret |-> Some(AddNodeIndex)]
  /\ UNCHANGED <<edges, run>>

\* A remove_node that touches the edge map only when the node is present.
remove_node_guarded(index) ==
  /\ run = Idle
  /\ nodes' = [x \in (DOMAIN nodes) \ {index} |-> nodes[x]]
  /\ edges' = IF index \in DOMAIN nodes
              THEN [x \in {e \in DOMAIN edges : e[1] # index /\ e[2] # index} |-> edges[x]]
              ELSE edges
  /\ last' = [op |-> "remove_node", a |-> index, b |-> 0, v |-> 0,
              ret |-> IF index \in DOMAIN nodes THEN Some(nodes[index]) ELSE None]
  /\ UNCHANGED <<issued, run>>

\* Graph::remove_node
remove_node(index) ==
  /\ run = Idle
  /\ nodes' = MapRestrict(nodes, (DOMAIN nodes) \ {index})
  /\ edges' = MapRestrict(edges, {e \in DOMAIN edges : ~touches(e, index)})
  /\ last' = [op |-> "remove_node", a |-> index, b |-> 0, v |-> 0,
              ret |-> get_node(index)]
  /\ UNCHANGED <<issued, run>>

\* An add_edge that refuses an endpoint that is not a node, as add_edge_map
\* does, and inserts nothing then.
add_edge_checked(from, to, data) ==
  /\ run = Idle
  /\ (EdgeNew(from, to) \in DOMAIN edges \/ num_edges < MaxEdges)
  /\ edges' = IF from \in DOMAIN nodes /\ to \in DOMAIN nodes
              THEN [x \in (DOMAIN edges) \cup {EdgeNew(from, to)} |->
                      IF x = EdgeNew(from, to) THEN data ELSE edges[x]]
              ELSE edges
  /\ last' = [op |-> "add_edge", a |-> from, b |-> to, v |-> data,
              ret |-> IF EdgeNew(from, to) \in DOMAIN edges
                      THEN Some(edges[EdgeNew(from, to)]) ELSE None]
  /\ UNCHANGED <<nodes, issued, run>>

\* Graph::add_edge
add_edge(from, to, data) ==
  /\ run = Idle
  /\ (EdgeNew(from, to) \in DOMAIN edges \/ num_edges < MaxEdges)
  /\ edges' = MapInsert(edges, EdgeNew(from, to), data)
  /\ last' = [op |-> "add_edge", a |-> from, b |-> to, v |-> data,
              ret |-> get_edge(from, to)]
  /\ UNCHANGED <<nodes, issued, run>>

\* Graph::add_edge_map : both endpoints are looked up first (the two `?`
\* return None and insert nothing when one is not a node); the edge value
\* is computed from the two node values, in the order of the call.
add_edge_map(from, to, edge_value) ==
  /\ run = Idle
  /\ LET src == get_node(from)
         dst == get_node(to)
     IN  IF src = None \/ dst = None
         THEN /\ edges' = edges
              /\ last' = [op |-> "add_edge_map", a |-> from, b |-> to, v |-> 0,
                          ret |-> None]
         ELSE /\ (EdgeNew(from, to) \in DOMAIN edges \/ num_edges < MaxEdges)
              /\ edges' = MapInsert(edges, EdgeNew(from, to),
                                    edge_value[<<src[1], dst[1]>>])
              /\ last' = [op |-> "add_edge_map", a |-> from, b |-> to,
                          v |-> edge_value[<<src[1], dst[1]>>],
                          ret |-> get_edge(from, to)]
  /\ UNCHANGED <<nodes, issued, run>>

\* A remove_edge that drops every edge touching `from`.
remove_edge_touching(from, to) ==
  /\ run = Idle
  /\ edges' = [x \in {e \in DOMAIN edges : e[1] # from /\ e[2] # from} |-> edges[x]]
  /\ last' = [op |-> "remove_edge", a |-> from, b |-> to, v |-> 0,
              ret |-> IF EdgeNew(from, to) \in DOMAIN edges
                      THEN Some(edges[EdgeNew(from, to)]) ELSE None]
  /\ UNCHANGED <<nodes, issued, run>>

\* Graph::remove_edge
remove_edge(from, to) ==
  /\ run = Idle
  /\ edges' = MapRestrict(edges, (DOMAIN edges) \ {EdgeNew(from, to)})
  /\ last' = [op |-> "remove_edge", a |-> from, b |-> to, v |-> 0,
              ret |-> get_edge(from, to)]
  /\ UNCHANGED <<nodes, issued, run>>

Ids == 0 .. (MaxNodes - 1)

\* The arguments add_edge_map is called with: endpoints from MapEndpoints
\* (in both orders, nodes or not), and as function the value of the first
\* argument's node or the value of the second argument's node.
MapEndpoints == {0, 1}
EdgeValueFns ==
  {[p \in Values \X Values |-> p[1]], [p \in Values \X Values |-> p[2]]}

\* Graph::new
Init ==
  /\ nodes = <<>>
  /\ edges = <<>>
  /\ issued = {}
  /\ last = [op |-> "new", a |-> 0, b |-> 0, v |-> 0, ret |-> None]
  /\ run = Idle

Next ==
  \/ \E data \in Values : add_node(data)
  \/ \E index \in Ids : remove_node(index)
  \/ \E from \in Endpoints, to \in Endpoints, data \in EdgeValues : add_edge(from, to, data)
  \/ \E from \in MapEndpoints, to \in MapEndpoints, f \in EdgeValueFns : add_edge_map(from, to, f)
  \/ \E from \in Endpoints, to \in Endpoints : remove_edge(from, to)

Spec == Init /\ [][Next]_vars

\* ---- claims about the store (Spec) ----------------------------------------

\* C1: every identifier add_node returns differs from every identifier an
\* earlier add_node returned on the same graph, also from those of nodes
\* removed since.
C1_IdentifiersNeverReused ==
  [][last'.op = "add_node" => last'.a \notin issued]_vars

\* C2: add_node(value) returns an identifier id with get_node(id) = value
\* afterwards, num_nodes() grown by exactly one, and every node present
\* before the call still holding the value it held.
C2_AddNodeAppends ==
  [][last'.op = "add_node" =>
       /\ last'.a \in DOMAIN nodes' /\ nodes'[last'.a] = last'.v
       /\ Cardinality(DOMAIN nodes') = Cardinality(DOMAIN nodes) + 1
       /\ \A i \in DOMAIN nodes : i \in DOMAIN nodes' /\ nodes'[i] = nodes[i]]_vars

\* C11: add_edge(a, b, v) on a pair that already has an edge overwrites the
\* value, returns the previous value and leaves num_edges() unchanged
\* (re-adding the same value leaves the whole edge map unchanged); on a pair
\* without an edge it returns nothing and num_edges() grows by one.
C11_AddEdgeOverwrites ==
  [][last'.op = "add_edge" =>
       \A a \in {last'.a}, b \in {last'.b}, v \in {last'.v} :
         IF get_edge(a, b) # None
         THEN /\ last'.ret = get_edge(a, b)
              /\ get_edge(a, b)' = Some(v)
              /\ num_edges' = num_edges
              /\ (get_edge(a, b) = Some(v) => edges' = edges)
         ELSE /\ last'.ret = None
              /\ get_edge(a, b)' = Some(v)
              /\ num_edges' = num_edges + 1]_vars

\* C11 witness: an add_edge has replaced a different value on an existing
\* pair and returned the old one.
C11_Witness ==
  /\ last.op = "add_edge"
  /\ last.ret # None /\ last.ret # Some(last.v)
  /\ get_edge(last.a, last.b) = Some(last.v)

\* C12: edges are keyed by the unordered endpoint pair: in every state
\* get_edge and are_neighbors are symmetric and no unordered pair has two
\* entries; after add_edge(a, b, v) the value of the pair is v under both
\* orders, whichever order it was added in before, and after remove_edge(a, b)
\* the pair has no edge under either order.
C12_EdgesUndirected ==
  /\ \A a \in Endpoints, b \in Endpoints :
       /\ get_edge(a, b) = get_edge(b, a)
       /\ are_neighbors(a, b) = are_neighbors(b, a)
  /\ num_edges = Cardinality({p \in Endpoints \X Endpoints :
                                p[1] <= p[2] /\ are_neighbors(p[2], p[1])})
  /\ last.op = "add_edge" =>
       /\ get_edge(last.b, last.a) = Some(last.v)
       /\ get_edge(last.a, last.b) = Some(last.v)
  /\ last.op = "remove_edge" =>
       /\ get_edge(last.b, last.a) = None
       /\ get_edge(last.a, last.b) = None

\* C12 witness: an edge was removed by a call naming its larger endpoint
\* first.
C12_Witness ==
  /\ last.op = "remove_edge"
  /\ last.a > last.b
  /\ last.ret # None
  /\ ~are_neighbors(last.b, last.a)

\* C13: remove_node(id) on a present node returns its value, removes exactly
\* that node and exactly the edges with id as an endpoint, and leaves every
\* other node and every other edge as it was.
C13_RemoveNodeExact ==
  [][(last'.op = "remove_node" /\ last'.a \in DOMAIN nodes) =>
       LET id == last'.a IN
       /\ last'.ret = Some(nodes[id])
       /\ DOMAIN nodes' = (DOMAIN nodes) \ {id}
       /\ \A i \in DOMAIN nodes' : nodes'[i] = nodes[i]
       /\ DOMAIN edges' = {e \in DOMAIN edges : e[1] # id /\ e[2] # id}
       /\ \A e \in DOMAIN edges' : edges'[e] = edges[e]]_vars

\* C13 witness: a present node was removed while another node and an edge
\* not touching the removed node remain.
C13_Witness ==
  /\ last.op = "remove_node"
  /\ last.ret # None
  /\ num_nodes >= 1
  /\ num_edges >= 1

\* C14: remove_edge(a, b) on an existing edge returns its value, after which
\* get_edge(a, b) is absent and num_edges() is one less; nodes and every
\* other edge are unchanged; on a pair without an edge it returns nothing
\* and changes nothing.
C14_RemoveEdgeExact ==
  [][last'.op = "remove_edge" =>
       \A a \in {last'.a}, b \in {last'.b} :
         /\ nodes' = nodes
         /\ IF get_edge(a, b) # None
            THEN /\ last'.ret = get_edge(a, b)
                 /\ get_edge(a, b)' = None
                 /\ num_edges' = num_edges - 1
                 /\ \A e \in DOMAIN edges :
                      (e # <<a, b>> /\ e # <<b, a>>)
                        => (e \in DOMAIN edges' /\ edges'[e] = edges[e])
            ELSE /\ last'.ret = None
                 /\ edges' = edges]_vars

\* C14 witness: one of two edges was removed, the other remains.
C14_Witness ==
  /\ last.op = "remove_edge"
  /\ last.ret # None
  /\ num_edges = 1
  /\ num_nodes >= 1

\* The number of edges with id as an endpoint.
Degree(id) == Cardinality({e \in DOMAIN edges : e[1] = id \/ e[2] = id})

\* C15: neighbors(id) yields one pair <<other endpoint, edge value>> per edge
\* touching id and nothing else, in strictly ascending order of the canonical
\* edge key, which is strictly ascending order of the neighbour identifier;
\* being a function of the edge map, it does not depend on insertion order.
C15_NeighborsSorted ==
  \A id \in Endpoints :
    LET ns == neighbors(id) IN
    /\ Len(ns) = Degree(id)
    /\ \A i \in 1 .. Len(ns) :
         LET k == IF id <= ns[i][1] THEN <<id, ns[i][1]>> ELSE <<ns[i][1], id>>
         IN  k \in DOMAIN edges /\ ns[i][2] = edges[k]
    /\ \A i \in 1 .. (Len(ns) - 1) :
         LET k == IF id <= ns[i][1] THEN <<id, ns[i][1]>> ELSE <<ns[i][1], id>>
             l == IF id <= ns[i + 1][1] THEN <<id, ns[i + 1][1]>> ELSE <<ns[i + 1][1], id>>
         IN  /\ k[1] < l[1] \/ (k[1] = l[1] /\ k[2] < l[2])
             /\ ns[i][1] < ns[i + 1][1]

\* C15 witness: the edge to neighbour 0 was inserted after the edge to
\* neighbour 2, and neighbors(1) lists it first.
C15_Witness ==
  /\ last.op = "add_edge" /\ last.ret = None
  /\ EdgeNew(last.a, last.b) = <<0, 1>>
  /\ Len(neighbors(1)) = 2
  /\ neighbors(1)[1][1] = 0
  /\ neighbors(1)[2][1] = 2

\* C16: add_edge validates no endpoint: also when from or to is not a node
\* the edge is inserted, get_edge returns the value afterwards, num_edges()
\* counts it, and the call returns the previous value like any other.
C16_AddEdgeNoValidation ==
  [][(last'.op = "add_edge"
        /\ (last'.a \notin DOMAIN nodes \/ last'.b \notin DOMAIN nodes)) =>
       \A a \in {last'.a}, b \in {last'.b} :
         /\ get_edge(a, b)' = Some(last'.v)
         /\ are_neighbors(a, b)'
         /\ num_edges' = Cardinality((DOMAIN edges)
                                       \cup {IF a <= b THEN <<a, b>> ELSE <<b, a>>})
         /\ last'.ret = get_edge(a, b)
         /\ nodes' = nodes]_vars

\* C16 witness: a new edge between two identifiers that are not nodes was
\* inserted into a graph that has a node.
C16_Witness ==
  /\ last.op = "add_edge"
  /\ last.a \notin DOMAIN nodes /\ last.b \notin DOMAIN nodes
  /\ last.ret = None
  /\ num_nodes >= 1
  /\ get_edge(last.a, last.b) = Some(last.v)

\* C30 as stated: remove_node(id) for an identifier that is not a present
\* node returns nothing and leaves the node map and the edge map unchanged.
C30_RemoveAbsentUnchanged ==
  [][(last'.op = "remove_node" /\ last'.a \notin DOMAIN nodes) =>
       /\ last'.ret = None
       /\ nodes' = nodes
       /\ edges' = edges]_vars

\* C30 amended: remove_node(id) for an identifier that is not a present node
\* returns nothing and leaves the node map unchanged, but it removes every
\* edge that has id as an endpoint; every other edge is unchanged.
C30_RemoveAbsentPurges ==
  [][(last'.op = "remove_node" /\ last'.a \notin DOMAIN nodes) =>
       /\ last'.ret = None
       /\ nodes' = nodes
       /\ DOMAIN edges' = {e \in DOMAIN edges : e[1] # last'.a /\ e[2] # last'.a}
       /\ \A e \in DOMAIN edges' : edges'[e] = edges[e]]_vars

\* C30 witness: remove_node of an identifier that is not a node has returned
\* nothing on a graph that has a node and keeps an edge.
C30_Witness ==
  /\ last.op = "remove_node"
  /\ last.ret = None
  /\ num_nodes >= 1
  /\ num_edges >= 1
  /\ \A e \in DOMAIN edges : e[1] # last.a /\ e[2] # last.a

\* ---- graph_algo/search.rs -----------------------------------------------

\* Bounds of the graphs the algorithm specifications draw. Simple graphs
\* (no gap in the identifiers, no self-loop) have up to GraphNodes nodes and
\* GraphEdges edges; graphs with removed nodes and self-loops have up to
\* SmallNodes identifiers.
GraphNodes == 5
GraphEdges == 5
SmallNodes == 3

Modes == {"BreadthFirst", "DepthFirst"}

\* A next that ignores the mode and pops the back.
SearchModeNextBack(mode, cands) ==
  [item |-> cands[Len(cands)], rest |-> SubSeq(cands, 1, Len(cands) - 1)]

\* A next that ignores the mode and pops the front.
SearchModeNextFront(mode, cands) ==
  [item |-> Head(cands), rest |-> Tail(cands)]

\* SearchMode::next : pop_front for BreadthFirst, pop_back for DepthFirst.
SearchModeNext(mode, cands) ==
  IF mode = "BreadthFirst"
  THEN [item |-> Head(cands), rest |-> Tail(cands)]
  ELSE [item |-> cands[Len(cands)], rest |-> SubSeq(cands, 1, Len(cands) - 1)]

\* A reverse that leaves the sequence as it is.
ReverseKept(s) == s

RECURSIVE Reverse(_)
Reverse(s) == IF s = <<>> THEN <<>> ELSE Append(Reverse(Tail(s)), Head(s))

\* vec![x; self.num_nodes()]
VecOf(x) == [i \in 0 .. (num_nodes - 1) |-> x]

\* search, lines 31-40: walk the back-pointers from `to` until `from` is
\* pushed or a node without back-pointer is reached. fuel bounds the walk; a
\* walk that outlives it is in a cycle that does not contain `from`.
RECURSIVE SearchPath(_, _, _, _)
SearchPath(came_from, from, path, fuel) ==
  LET at == path[Len(path)] IN
  IF at \notin DOMAIN came_from THEN [status |-> "panic", path |-> path]
  ELSE IF came_from[at] = None THEN [status |-> "done", path |-> path]
  ELSE LET n == came_from[at][1] IN
       IF n = from THEN [status |-> "done", path |-> Append(path, n)]
       ELSE IF fuel = 0 THEN [status |-> "hang", path |-> path]
       ELSE SearchPath(came_from, from, Append(path, n), fuel - 1)

\* search, lines 43-49: the loop over neighbors(cur).
RECURSIVE SearchExpand(_, _, _)
SearchExpand(st, cur, ns) ==
  IF ns = <<>> THEN st
  ELSE LET node == Head(ns)[1] IN
       IF node \notin DOMAIN st.came_from THEN [st EXCEPT !.status = "panic"]
       ELSE IF st.came_from[node] # None THEN SearchExpand(st, cur, Tail(ns))
       ELSE SearchExpand([st EXCEPT !.candidates = Append(@, node),
                                    !.came_from[node] = Some(cur)],
                         cur, Tail(ns))

\* search, lines 22-25.
SearchInit(from) ==
  [came_from |-> VecOf(None), candidates |-> <<from>>, status |-> "running",
   result |-> None, dequeued |-> <<>>]

\* search, lines 27-52: one iteration of the while loop (or the final None).
SearchStep(st, from, to, mode) ==
  IF st.candidates = <<>> THEN [st EXCEPT !.status = "done", !.result = None]
  ELSE LET nx == SearchModeNext(mode, st.candidates)
           cur == nx.item
           st1 == [st EXCEPT !.candidates = nx.rest, !.dequeued = Append(@, cur)]
       IN  IF cur = to
           THEN LET p == SearchPath(st1.came_from, from, <<cur>>, num_nodes)
                IN  [st1 EXCEPT !.status = p.status,
                                !.result = IF p.status = "done"
                                           THEN Some(Reverse(p.path)) ELSE None]
           ELSE SearchExpand(st1, cur, neighbors(cur))

RECURSIVE SearchLoop(_, _, _, _)
SearchLoop(st, from, to, mode) ==
  IF st.status # "running" THEN st
  ELSE SearchLoop(SearchStep(st, from, to, mode), from, to, mode)

\* The whole call search(from, to, mode) on the current graph.
SearchCall(from, to, mode) == SearchLoop(SearchInit(from), from, to, mode)

\* Graph::search
search(from, to, mode) ==
  /\ run = Idle
  /\ run' = [alg |-> "search", from |-> from, to |-> to, mode |-> mode]
              @@ SearchCall(from, to, mode)
  /\ UNCHANGED <<nodes, edges, issued, last>>

\* Graph::visit : builds the GraphVisitor; visited[from] = true panics when
\* from is outside the visited array. The fields out (the identifiers
\* yielded so far), popped (the identifiers taken from candidates so far)
\* and status are history: status is "done" when the last call of next
\* returned None, "running" before the first call and after a Some.
VisitInit(from, mode) ==
  IF from \in 0 .. (num_nodes - 1)
  THEN [alg |-> "visit", from |-> from, mode |-> mode,
        visited |-> [VecOf(FALSE) EXCEPT ![from] = TRUE],
        candidates |-> <<from>>, out |-> <<>>, popped |-> <<>>,
        status |-> "running"]
  ELSE [alg |-> "visit", from |-> from, mode |-> mode,
        visited |-> VecOf(FALSE),
        candidates |-> <<>>, out |-> <<>>, popped |-> <<>>,
        status |-> "panic"]

visit(from, mode) ==
  /\ run = Idle
  /\ run' = VisitInit(from, mode)
  /\ UNCHANGED <<nodes, edges, issued, last>>

\* An expansion that enqueues neighbours without marking them visited.
RECURSIVE VisitExpandUnmarked(_, _)
VisitExpandUnmarked(st, ns) ==
  IF ns = <<>> THEN st
  ELSE LET node == Head(ns)[1] IN
       IF node \notin DOMAIN st.visited THEN [st EXCEPT !.status = "panic"]
       ELSE IF st.visited[node] THEN VisitExpandUnmarked(st, Tail(ns))
       ELSE VisitExpandUnmarked([st EXCEPT !.candidates = Append(@, node)], Tail(ns))

\* GraphVisitor::next, lines 88-94: the loop over neighbors(current).
RECURSIVE VisitExpand(_, _)
VisitExpand(st, ns) ==
  IF ns = <<>> THEN st
  ELSE LET node == Head(ns)[1] IN
       IF node \notin DOMAIN st.visited THEN [st EXCEPT !.status = "panic"]
       ELSE IF st.visited[node] THEN VisitExpand(st, Tail(ns))
       ELSE VisitExpand([st EXCEPT !.candidates = Append(@, node),
                                   !.visited[node] = TRUE],
                        Tail(ns))

\* GraphVisitor::next : one call. It returns None when no candidate is
\* pending and when the popped identifier is not a node; in the second case
\* candidates may still hold identifiers, and a later call goes on with them
\* (the iterator is not fused).
VisitorNext(st) ==
  IF st.candidates = <<>> THEN [st EXCEPT !.status = "done"]
  ELSE LET nx == SearchModeNext(st.mode, st.candidates)
           current == nx.item
           st1 == VisitExpand([st EXCEPT !.candidates = nx.rest], neighbors(current))
       IN  IF st1.status = "panic" THEN st1
           ELSE IF get_node(current) = None
           THEN [st1 EXCEPT !.status = "done", !.popped = Append(@, current)]
           ELSE [st1 EXCEPT !.status = "running", !.popped = Append(@, current),
                            !.out = Append(@, current)]

\* A call of next on the visitor; a caller may call again after a None.
next ==
  /\ run.alg = "visit"
  /\ run.status # "panic"
  /\ run' = VisitorNext(run)
  /\ UNCHANGED <<nodes, edges, issued, last>>

\* ---- graph_algo/dijkstra.rs ---------------------------------------------

\* An insert into a set ordered by the pair <<cost, node>>.
HeapInsertAlways(heap, cost, node) == heap \cup {<<cost, node>>}

\* BTreeSet<EdgeCost<E>>::insert. EdgeCost compares by its cost alone
\* (lines 10-19), so an entry whose cost equals that of an entry already in
\* the set is not inserted. The set is modelled as a set of <<cost, node>>.
HeapInsert(heap, cost, node) ==
  IF \E e \in heap : e[1] = cost THEN heap ELSE heap \cup {<<cost, node>>}

\* BTreeSet::pop_first : the entry of least cost.
HeapFirst(heap) == CHOOSE e \in heap : \A f \in heap : e[1] <= f[1]

\* dijkstra, lines 39-48: walk the recorded predecessors from `to` until
\* `from` is pushed. fuel bounds the walk; a walk that outlives it is in a
\* cycle of predecessors that does not contain `from` and never ends.
RECURSIVE DijkstraPath(_, _, _, _)
DijkstraPath(weights, from, path, fuel) ==
  LET at == path[Len(path)] IN
  IF at \notin DOMAIN weights THEN [status |-> "panic", path |-> path]
  ELSE IF weights[at] = None THEN [status |-> "done", path |-> path]
  ELSE LET node == weights[at][1][2] IN
       IF node = from THEN [status |-> "done", path |-> Append(path, node)]
       ELSE IF fuel = 0 THEN [status |-> "hang", path |-> path]
       ELSE DijkstraPath(weights, from, Append(path, node), fuel - 1)

\* An expansion that also skips a neighbour whose recorded weight is equal.
RECURSIVE DijkstraExpandSkipEqual(_, _, _, _)
DijkstraExpandSkipEqual(st, node, cost_here, ns) ==
  IF ns = <<>> THEN st
  ELSE LET next_node == Head(ns)[1]
           total_to_next == cost_here + Head(ns)[2]
       IN  IF next_node \notin DOMAIN st.weights THEN [st EXCEPT !.status = "panic"]
           ELSE IF st.weights[next_node] # None
                   /\ st.weights[next_node][1][1] <= total_to_next
           THEN DijkstraExpandSkipEqual(st, node, cost_here, Tail(ns))
           ELSE DijkstraExpandSkipEqual(
                  [st EXCEPT !.weights[next_node] = Some(<<total_to_next, node>>),
                             !.heap = IF \E e \in @ : e[1] = total_to_next THEN @
                                      ELSE @ \cup {<<total_to_next, next_node>>}],
                  node, cost_here, Tail(ns))

\* dijkstra, lines 51-64: the loop over neighbors(node).
RECURSIVE DijkstraExpand(_, _, _, _)
DijkstraExpand(st, node, cost_here, ns) ==
  IF ns = <<>> THEN st
  ELSE LET next_node == Head(ns)[1]
           total_to_next == cost_here + Head(ns)[2]
       IN  IF next_node \notin DOMAIN st.weights THEN [st EXCEPT !.status = "panic"]
           ELSE IF st.weights[next_node] # None
                   /\ st.weights[next_node][1][1] < total_to_next
           THEN DijkstraExpand(st, node, cost_here, Tail(ns))
           ELSE DijkstraExpand(
                  [st EXCEPT !.weights[next_node] = Some(<<total_to_next, node>>),
                             !.heap = HeapInsert(@, total_to_next, next_node)],
                  node, cost_here, Tail(ns))

\* dijkstra, lines 29-33.
DijkstraInit(from, to) ==
  IF from \in 0 .. (num_nodes - 1)
  THEN [alg |-> "dijkstra", from |-> from, to |-> to,
        weights |-> [VecOf(None) EXCEPT ![from] = Some(<<0, from>>)],
        heap |-> {<<0, from>>}, status |-> "running", result |-> None,
        seen |-> {}]
  ELSE [alg |-> "dijkstra", from |-> from, to |-> to,
        weights |-> VecOf(None),
        heap |-> {<<0, from>>}, status |-> "panic", result |-> None,
        seen |-> {}]

\* dijkstra, lines 35-67: one iteration of the while loop (or the final None).
DijkstraTurn(st) ==
  IF st.heap = {} THEN [st EXCEPT !.status = "done", !.result = None]
  ELSE LET first == HeapFirst(st.heap)
           cost_here == first[1]
           node == first[2]
           st1 == [st EXCEPT !.heap = @ \ {first}]
       IN  IF node = st.to
           THEN LET p == DijkstraPath(st1.weights, st.from, <<node>>, num_nodes)
                IN  [st1 EXCEPT !.status = p.status,
                                !.result = IF p.status = "done"
                                           THEN Some(<<cost_here, Reverse(p.path)>>)
                                           ELSE None]
           ELSE DijkstraExpand(st1, node, cost_here, neighbors(node))

\* One iteration with the history of the loop: seen holds the (heap, weights)
\* pairs the loop has started a turn with. The loop is a deterministic
\* function of that pair, so a turn that leads to a pair it has already
\* started from never leaves the loop; this is recorded as status "hang".
DijkstraStep(st) ==
  LET nx == DijkstraTurn(st)
      was == st.seen \cup {<<st.heap, st.weights>>}
  IN  IF nx.status = "running" /\ <<nx.heap, nx.weights>> \in was
      THEN [nx EXCEPT !.status = "hang"]
      ELSE [nx EXCEPT !.seen = was]

\* Graph::dijkstra : entry of the call.
dijkstra(from, to) ==
  /\ run = Idle
  /\ run' = DijkstraInit(from, to)
  /\ UNCHANGED <<nodes, edges, issued, last>>

\* Graph::dijkstra : one turn of its while loop.
dijkstra_loop ==
  /\ run.alg = "dijkstra"
  /\ run.status = "running"
  /\ run' = DijkstraStep(run)
  /\ UNCHANGED <<nodes, edges, issued, last>>

\* ---- graph_algo/astar.rs --------------------------------------------------

\* The heuristic argument of astar, a pure function of the node value and
\* the edge value, is a table h from <<node value, edge value>> to its f64
\* result. The results are modelled by integers, which total_cmp orders the
\* way it orders the floats.
Heuristic(h, node_data, edge) == h[<<node_data, edge>>]

\* BTreeSet<HeuristicCost>::insert. HeuristicCost compares by its cost alone
\* (lines 7-23), so an entry whose cost equals that of an entry already in
\* the set is not inserted. The set is modelled as a set of <<cost, node>>.
HeuristicInsert(heap, eval, node) ==
  IF \E e \in heap : e[1] = eval THEN heap ELSE heap \cup {<<eval, node>>}

\* BTreeSet::pop_first : the entry of least cost.
HeuristicFirst(heap) == CHOOSE e \in heap : \A f \in heap : e[1] <= f[1]

\* A walk of the back-pointers that does not stop at `from`.
RECURSIVE AstarPathNoBreak(_, _, _, _)
AstarPathNoBreak(visited, from, path, fuel) ==
  LET at == path[Len(path)] IN
  IF at \notin DOMAIN visited THEN [status |-> "panic", path |-> path]
  ELSE IF visited[at] = None THEN [status |-> "done", path |-> path]
  ELSE IF fuel = 0 THEN [status |-> "hang", path |-> path]
  ELSE AstarPathNoBreak(visited, from, Append(path, visited[at][1]), fuel - 1)

\* astar, lines 46-57: walk the back-pointers from `to` until `from` is
\* pushed or a node without back-pointer is reached. fuel bounds the walk.
RECURSIVE AstarPath(_, _, _, _)
AstarPath(visited, from, path, fuel) ==
  LET at == path[Len(path)] IN
  IF at \notin DOMAIN visited THEN [status |-> "panic", path |-> path]
  ELSE IF visited[at] = None THEN [status |-> "done", path |-> path]
  ELSE LET node == visited[at][1] IN
       IF node = from THEN [status |-> "done", path |-> Append(path, node)]
       ELSE IF fuel = 0 THEN [status |-> "hang", path |-> path]
       ELSE AstarPath(visited, from, Append(path, node), fuel - 1)

\* astar, lines 60-72: the loop over neighbors(node). get_node(next_node)?
\* ends the call with None when the neighbour is not a node. pushed records
\* every heap.insert call, entered those that added an entry to the set.
RECURSIVE AstarExpand(_, _, _)
AstarExpand(st, node, ns) ==
  IF ns = <<>> THEN st
  ELSE LET next_node == Head(ns)[1]
           edge == Head(ns)[2]
       IN  IF get_node(next_node) = None
           THEN [st EXCEPT !.status = "done", !.result = None]
           ELSE LET eval == Heuristic(st.heuristic, get_node(next_node)[1], edge) IN
                IF next_node \notin DOMAIN st.visited THEN [st EXCEPT !.status = "panic"]
                ELSE IF st.visited[next_node] # None THEN AstarExpand(st, node, Tail(ns))
                ELSE AstarExpand(
                       [st EXCEPT !.visited[next_node] = Some(node),
                                  !.heap = HeuristicInsert(@, eval, next_node),
                                  !.pushed = Append(@, <<eval, next_node>>),
                                  !.entered =
                                     IF HeuristicInsert(st.heap, eval, next_node) = st.heap
                                     THEN @ ELSE Append(@, next_node)],
                       node, Tail(ns))

\* astar, lines 37-40.
AstarInit(from, to, h) ==
  [alg |-> "astar", from |-> from, to |-> to, heuristic |-> h,
   visited |-> VecOf(None), heap |-> {<<0, from>>},
   status |-> "running", result |-> None,
   pushed |-> <<(<<0, from>>)>>, entered |-> <<from>>, dequeued |-> <<>>]

\* astar, lines 42-74: one iteration of the while loop (or the final None).
AstarStep(st) ==
  IF st.heap = {} THEN [st EXCEPT !.status = "done", !.result = None]
  ELSE LET first == HeuristicFirst(st.heap)
           node == first[2]
           st1 == [st EXCEPT !.heap = @ \ {first}, !.dequeued = Append(@, node)]
       IN  IF node = st.to
           THEN LET p == AstarPath(st1.visited, st.from, <<node>>, num_nodes)
                IN  [st1 EXCEPT !.status = p.status,
                                !.result = IF p.status = "done"
                                           THEN Some(Reverse(p.path)) ELSE None]
           ELSE AstarExpand(st1, node, neighbors(node))

\* Graph::astar : entry of the call.
astar(from, to, h) ==
  /\ run = Idle
  /\ run' = AstarInit(from, to, h)
  /\ UNCHANGED <<nodes, edges, issued, last>>

\* Graph::astar : one turn of its while loop.
astar_loop ==
  /\ run.alg = "astar"
  /\ run.status = "running"
  /\ run' = AstarStep(run)
  /\ UNCHANGED <<nodes, edges, issued, last>>

\* ---- the graphs the algorithm specifications start from ------------------

\* All canonical keys over a set of identifiers, self-loops included.
PairsOver(S) == {e \in S \X S : e[1] <= e[2]}

\* The canonical keys that are not self-loops.
SimplePairs(S) == {e \in S \X S : e[1] < e[2]}

\* Subsets of S with at most k elements.
SubsetsUpTo(S, k) == {T \in SUBSET S : Cardinality(T) <= k}

\* No history is kept for a drawn graph.
Built == [op |-> "built", a |-> 0, b |-> 0, v |-> 0, ret |-> None]

\* A graph as left by n add_node calls (node i holding value i, as in
\* tests::test_visit_bfs), remove_node of the identifiers in gone, and
\* add_edge between surviving nodes with values from ws.
DrawGraph(n, gone, E, ws) ==
  /\ nodes = [i \in (0 .. (n - 1)) \ gone |-> i]
  /\ edges \in [E -> ws]
  /\ issued = 0 .. (n - 1)
  /\ last = Built
  /\ run = Idle

\* Simple graphs without removed nodes.
DrawSimple(maxn, maxe, ws) ==
  \E n \in 1 .. maxn :
    \E E \in SubsetsUpTo(SimplePairs(0 .. (n - 1)), maxe) :
      DrawGraph(n, {}, E, ws)

\* Small graphs with removed nodes and self-loops.
DrawSmall(ws) ==
  \E n \in 1 .. SmallNodes :
    \E gone \in SUBSET (0 .. (n - 1)) :
      \E E \in SUBSET PairsOver((0 .. (n - 1)) \ gone) :
        DrawGraph(n, gone, E, ws)

\* The edge value of the unweighted tests (the unit type).
Unit == {1}

InitSearch == DrawSimple(GraphNodes, GraphEdges, Unit) \/ DrawSmall(Unit)

\* Calls of search on a drawn graph.
NextSearch ==
  \E from \in DOMAIN nodes, to \in DOMAIN nodes, mode \in Modes : search(from, to, mode)

SpecSearch == InitSearch /\ [][NextSearch]_vars

\* Graphs of four identifiers of which one was removed, with edges added
\* afterwards between any of the four: an edge may end at the removed one.
DanglingNodes == 4
DanglingEdges == 3
DrawDangling ==
  \E gone \in 0 .. (DanglingNodes - 1) :
    \E E \in SubsetsUpTo(SimplePairs(0 .. (DanglingNodes - 1)), DanglingEdges) :
      DrawGraph(DanglingNodes, {gone}, E, Unit)

InitVisit == InitSearch \/ DrawDangling

\* Calls of visit on a drawn graph, and of next on the visitor.
NextVisit ==
  \/ \E from \in DOMAIN nodes, mode \in Modes : visit(from, mode)
  \/ next

SpecVisit == InitVisit /\ [][NextVisit]_vars

\* Bounds of the weighted graphs the Dijkstra specification draws.
WeightedNodes == 4
WeightedEdges == 4

\* Edge weights of the drawn simple graphs, and of the small ones (which
\* include the zero weight).
Weights == {1, 2}
SmallWeights == {0, 1}

\* The graphs of tests::test_dijkstra (before and after edge (2,3) is
\* overwritten) and tests::test_dijkstra_no_path: ten nodes.
DijkstraFixture1 == (<<0, 1>> :> 2) @@ (<<1, 2>> :> 2) @@ (<<2, 3>> :> 2)
                      @@ (<<3, 4>> :> 2) @@ (<<0, 4>> :> 10)
DijkstraFixture2 == (<<0, 1>> :> 2) @@ (<<1, 2>> :> 2) @@ (<<2, 3>> :> 6)
                      @@ (<<3, 4>> :> 2) @@ (<<0, 4>> :> 10)
DijkstraFixture3 == (<<0, 1>> :> 2) @@ (<<1, 2>> :> 2)

DrawFixture(es) ==
  /\ nodes = [i \in 0 .. 9 |-> 0]
  /\ edges = es
  /\ issued = 0 .. 9
  /\ last = Built
  /\ run = Idle

\* Graphs on five nodes in which node 3 is reached from node 0 directly and
\* through node 1, next to a second neighbour 2 of node 0, and leads on to
\* node 4; the weights are wide enough for the two routes to node 3 and the
\* edge to node 2 to differ by more than one.
TieEdges == {<<0, 1>>, <<0, 2>>, <<0, 3>>, <<1, 3>>, <<3, 4>>}
TieWeights == {1, 2, 3}
DrawTies == DrawGraph(Cardinality(TieEdges), {}, TieEdges, TieWeights)

InitDijkstra ==
  \/ DrawSimple(WeightedNodes, WeightedEdges, Weights)
  \/ DrawSmall(SmallWeights)
  \/ DrawTies
  \/ \E es \in {DijkstraFixture1, DijkstraFixture2, DijkstraFixture3} : DrawFixture(es)

NextDijkstra ==
  \/ \E from \in DOMAIN nodes, to \in DOMAIN nodes : dijkstra(from, to)
  \/ dijkstra_loop

SpecDijkstra == InitDijkstra /\ [][NextDijkstra]_vars

\* Bounds of the simple graphs the A* specification draws.
AstarNodes == 3
AstarEdges == 3

\* The results of the drawn heuristic tables.
Costs == {0, 1, 2}

\* Graphs left by three add_node calls, remove_node of some of the three
\* identifiers, and add_edge between any of the three identifiers (add_edge
\* does not require its endpoints to be nodes).
DrawRemoved ==
  \E gone \in (SUBSET Endpoints) \ {{}} :
    \E E \in SUBSET PairsOver(Endpoints) :
      DrawGraph(Cardinality(Endpoints), gone, E, Unit)

\* The graph of tests::test_astar: six nodes, node i standing for the i-th
\* DVec2 added, and the heuristic |node - node 4| as the table of squared
\* distances (squaring keeps order and equality of the six lengths).
AstarFixture == [e \in {<<0, 1>>, <<1, 2>>, <<2, 3>>, <<3, 4>>, <<1, 4>>} |-> 1]
AstarFixtureH ==
  (<<0, 1>> :> 4) @@ (<<1, 1>> :> 2) @@ (<<2, 1>> :> 5) @@ (<<3, 1>> :> 10)
    @@ (<<4, 1>> :> 0) @@ (<<5, 1>> :> 16)

IsAstarFixture == DOMAIN nodes = 0 .. 5 /\ edges = AstarFixture

DrawAstarFixture ==
  /\ nodes = [i \in 0 .. 5 |-> i]
  /\ edges = AstarFixture
  /\ issued = 0 .. 5
  /\ last = Built
  /\ run = Idle

\* The heuristic tables astar is called with on the current graph: the
\* test's own on the test graph, every table into Costs otherwise.
Heuristics ==
  IF IsAstarFixture THEN {AstarFixtureH}
  ELSE [{nodes[i] : i \in DOMAIN nodes} \X Unit -> Costs]

InitAstar ==
  \/ DrawSimple(AstarNodes, AstarEdges, Unit)
  \/ DrawRemoved
  \/ DrawAstarFixture

NextAstar ==
  \/ \E from \in DOMAIN nodes, to \in DOMAIN nodes, h \in Heuristics : astar(from, to, h)
  \/ astar_loop

SpecAstar == InitAstar /\ [][NextAstar]_vars

\* ---- reference notions the claims are stated with -----------------------

Range(s) == {s[i] : i \in 1 .. Len(s)}
NoDups(s) == \A i, j \in 1 .. Len(s) : i # j => s[i] # s[j]

\* Every identifier that is a node or an endpoint of an edge.
AllIds == (DOMAIN nodes) \cup {e[1] : e \in DOMAIN edges} \cup {e[2] : e \in DOMAIN edges}

\* The identifiers joined to x by an edge.
Adj(x) == {y \in AllIds : EdgeNew(x, y) \in DOMAIN edges}

\* The graph is one built by add_node and add_edge between existing nodes.
WellFormed ==
  /\ DOMAIN nodes = 0 .. (num_nodes - 1)
  /\ \A e \in DOMAIN edges : e[1] \in DOMAIN nodes /\ e[2] \in DOMAIN nodes

RECURSIVE Closure(_)
Closure(S) ==
  LET T == S \cup UNION {Adj(x) : x \in S}
  IN  IF T = S THEN S ELSE Closure(T)

\* The identifiers reachable from `from` by following edges (from included).
Reach(from) == Closure({from})

\* The least number of edges of a path from a node of frontier to `to`,
\* plus d; -1 when there is none.
RECURSIVE Layer(_, _, _, _)
Layer(frontier, seen, d, to) ==
  IF to \in frontier THEN d
  ELSE IF frontier = {} THEN -1
  ELSE Layer((UNION {Adj(x) : x \in frontier}) \ seen,
             seen \cup UNION {Adj(x) : x \in frontier}, d + 1, to)

Dist(from, to) == Layer({from}, {from}, 0, to)

\* A sequence of identifiers is a path of the graph from `from` to `to`.
IsPath(p, from, to) ==
  /\ Len(p) >= 1
  /\ p[1] = from
  /\ p[Len(p)] = to
  /\ \A i \in 1 .. (Len(p) - 1) : EdgeNew(p[i], p[i + 1]) \in DOMAIN edges

\* The ascending sequence of a set of identifiers.
RECURSIVE Ascending(_)
Ascending(S) ==
  IF S = {} THEN <<>>
  ELSE LET m == CHOOSE x \in S : \A y \in S : x <= y
       IN  <<m>> \o Ascending(S \ {m})

Max(S) == CHOOSE x \in S : \A y \in S : y <= x

\* For a visit that has taken the identifiers `out` from its queue: those
\* first met while expanding out[i], i.e. the neighbours of out[i] that are
\* neither the start node nor a neighbour of an earlier expanded one.
PushedAt(out, i) ==
  {x \in Adj(out[i]) :
     /\ x # out[1]
     /\ \A j \in 1 .. (i - 1) : x \notin Adj(out[j])}

\* The order in which a visit that has expanded out[1..k] enqueued
\* identifiers: the start node, then per expansion the new neighbours,
\* ascending.
RECURSIVE EnqOrder(_, _)
EnqOrder(out, k) ==
  IF k = 0 THEN <<out[1]>>
  ELSE EnqOrder(out, k - 1) \o Ascending(PushedAt(out, k))

\* The identifiers enqueued but not yet taken after k expansions, oldest
\* first.
Pending(out, k) == SelectSeq(EnqOrder(out, k), LAMBDA x : x \notin {out[j] : j \in 1 .. k})

SearchDone == run.alg = "search" /\ run.status = "done"
PathOf(r) == r.result[1]

\* ---- claims about search (SpecSearch) and visit (SpecVisit) -----------------

\* C5: on a graph built by add_node and add_edge between existing nodes, for
\* to reachable from from, search(from, to, BreadthFirst) returns a path whose
\* edge count is the minimum over all paths from from to to, and which is not
\* longer than the path search(from, to, DepthFirst) returns.
C5_BfsShortest ==
  (WellFormed /\ run.alg = "search" /\ run.mode = "BreadthFirst"
     /\ run.to \in Reach(run.from))
  => /\ run.status = "done"
     /\ run.result # None
     /\ IsPath(PathOf(run), run.from, run.to)
     /\ Len(PathOf(run)) - 1 = Dist(run.from, run.to)
     /\ LET dfs == SearchCall(run.from, run.to, "DepthFirst")
        IN  dfs.result # None /\ Len(PathOf(run)) <= Len(PathOf(dfs))

\* C5 witness: a breadth-first search returned a path strictly shorter than
\* the depth-first one on the same graph.
C5_Witness ==
  /\ WellFormed /\ SearchDone /\ run.mode = "BreadthFirst" /\ run.result # None
  /\ LET dfs == SearchCall(run.from, run.to, "DepthFirst")
     IN  dfs.result # None /\ Len(PathOf(run)) < Len(PathOf(dfs))

\* C6: on a graph built by add_node and add_edge between existing nodes,
\* search returns a path exactly when to is reachable from from, and nothing
\* otherwise, in both modes.
C6_SearchFindsIffReachable ==
  (WellFormed /\ run.alg = "search")
  => /\ run.status = "done"
     /\ (run.result # None) <=> (run.to \in Reach(run.from))

\* C6 witness: a search that expanded several nodes and returned nothing.
C6_Witness ==
  /\ WellFormed /\ SearchDone /\ run.result = None
  /\ Len(run.dequeued) >= 3
  /\ run.to \notin Reach(run.from)

\* C7: a returned path starts with from, ends with to, joins consecutive
\* identifiers by edges and repeats no identifier; for from = to it is [from].
C7_PathWellFormed ==
  (run.alg = "search" /\ run.result # None)
  => /\ IsPath(PathOf(run), run.from, run.to)
     /\ NoDups(PathOf(run))
     /\ (run.from = run.to => PathOf(run) = <<run.from>>)

\* C7 witness: a depth-first search returned a path of four nodes.
C7_Witness ==
  /\ SearchDone /\ run.mode = "DepthFirst" /\ run.result # None
  /\ Len(PathOf(run)) = 4

\* C8: on a graph built by add_node and add_edge between existing nodes a
\* visit yields no node twice, only nodes reachable from from, is bounded by
\* their number (pending and yielded nodes are disjoint and duplicate-free),
\* and has yielded exactly the reachable nodes when it ends.
C8_VisitYieldsReachableOnce ==
  (WellFormed /\ run.alg = "visit")
  => /\ run.status # "panic"
     /\ NoDups(run.out \o run.candidates)
     /\ Range(run.out) \cup Range(run.candidates) \subseteq Reach(run.from)
     /\ (run.status = "done" => Range(run.out) = Reach(run.from))

\* C8 witness: a finished visit of a graph with a cycle that yielded 4 nodes.
C8_Witness ==
  /\ WellFormed /\ run.alg = "visit" /\ run.status = "done"
  /\ Len(run.out) = 4
  /\ num_edges >= 4

\* The graph of tests::test_visit_bfs.
IsVisitBfsFixture ==
  /\ DOMAIN nodes = 0 .. 4
  /\ DOMAIN edges = {<<0, 1>>, <<1, 2>>, <<0, 3>>, <<0, 4>>}

\* The identifiers of s that are nodes, in the order of s.
NodesOf(s) == SelectSeq(s, LAMBDA x : x \in DOMAIN nodes)

\* C9: a breadth-first visit takes at each step the oldest pending
\* identifier (FIFO) and yields it when it is a node, so nodes come in
\* non-decreasing edge-count distance from from and the new neighbours
\* enqueued by one expansion come in ascending identifier order; on the test
\* graph the order from 0 is [0,1,3,4,2]. (Stated of the identifier taken
\* last: every prefix of popped is the popped of an earlier state.)
C9_BfsOrder ==
  (run.alg = "visit" /\ run.mode = "BreadthFirst")
  => LET out == run.popped
         n == Len(out)
     IN
     /\ run.out = NodesOf(run.popped)
     /\ n >= 2 =>
          /\ out[n] = Head(Pending(out, n - 1))
          /\ \A i \in 1 .. (n - 1) :
               /\ Dist(run.from, out[i]) <= Dist(run.from, out[n])
               /\ \A k \in 1 .. (n - 1) :
                    (out[i] \in PushedAt(out, k) /\ out[n] \in PushedAt(out, k))
                      => out[i] < out[n]
     /\ (IsVisitBfsFixture /\ run.from = 0 /\ run.status = "done")
          => run.out = <<0, 1, 3, 4, 2>>

\* C9 witness: the breadth-first visit of the test graph from 0 has ended.
C9_Witness ==
  /\ IsVisitBfsFixture /\ run.alg = "visit" /\ run.mode = "BreadthFirst"
  /\ run.from = 0 /\ run.status = "done" /\ run.out = <<0, 1, 3, 4, 2>>

\* The graph of tests::test_visit_dfs.
IsVisitDfsFixture ==
  /\ DOMAIN nodes = 0 .. 4
  /\ DOMAIN edges = {<<0, 1>>, <<1, 2>>, <<0, 3>>, <<2, 4>>}

\* C10: a depth-first visit takes at each step the most recently enqueued
\* pending identifier (LIFO) and yields it when it is a node, so after an
\* expansion that enqueued new neighbours the one with the highest
\* identifier comes next; on the test graph the order from 0 is
\* [0,3,1,2,4]. (Stated of the identifier taken last: every prefix of popped
\* is the popped of an earlier state.)
C10_DfsOrder ==
  (run.alg = "visit" /\ run.mode = "DepthFirst")
  => LET out == run.popped
         n == Len(out)
     IN
     /\ run.out = NodesOf(run.popped)
     /\ n >= 2 =>
          /\ LET pend == Pending(out, n - 1) IN out[n] = pend[Len(pend)]
          /\ PushedAt(out, n - 1) # {} => out[n] = Max(PushedAt(out, n - 1))
     /\ (IsVisitDfsFixture /\ run.from = 0 /\ run.status = "done")
          => run.out = <<0, 3, 1, 2, 4>>

\* C10 witness: the depth-first visit of the test graph from 0 has ended.
C10_Witness ==
  /\ IsVisitDfsFixture /\ run.alg = "visit" /\ run.mode = "DepthFirst"
  /\ run.from = 0 /\ run.status = "done" /\ run.out = <<0, 3, 1, 2, 4>>

\* A visit consumed up to the first None (as collect and for do).
RECURSIVE VisitLoop(_)
VisitLoop(st) == IF st.status # "running" THEN st ELSE VisitLoop(VisitorNext(st))

\* The sequence of nodes visit(from, mode) yields.
VisitCall(from, mode) == VisitLoop(VisitInit(from, mode)).out

\* The prefix of s up to and including the first x; s when x is not in it.
RECURSIVE UpTo(_, _)
UpTo(s, x) ==
  IF s = <<>> THEN <<>>
  ELSE IF Head(s) = x THEN <<x>>
  ELSE <<Head(s)>> \o UpTo(Tail(s), x)

\* C22: on a graph built by add_node and add_edge between existing nodes, the
\* sequence of nodes search(from, to, mode) dequeues until it stops is the
\* sequence visit(from, mode) yields, cut after to; from is dequeued once.
C22_SearchDequeuesLikeVisit ==
  (WellFormed /\ run.alg = "search")
  => /\ run.dequeued = UpTo(VisitCall(run.from, run.mode), run.to)
     /\ Cardinality({i \in 1 .. Len(run.dequeued) : run.dequeued[i] = run.from}) = 1

\* ---- claims about dijkstra (SpecDijkstra) ---------------------------------

\* The least of a non-empty set of numbers.
Min(S) == CHOOSE x \in S : \A y \in S : x <= y

\* d is a set of pairs <<x, c>>: c is the least summed weight of a walk of
\* at most some number of edges from the start node to x. One more edge.
RelaxOnce(d) ==
  d \cup {<<x, p[2] + edges[EdgeNew(x, p[1])]>> : <<x, p>> \in
            {q \in AllIds \X d : q[1] \in Adj(q[2][1])}}

RECURSIVE Relax(_, _)
Relax(d, k) == IF k = 0 THEN d ELSE Relax(RelaxOnce(d), k - 1)

\* The least summed edge weight over all paths from `from` to `to`
\* (non-negative weights); -1 when there is none.
MinCost(from, to) ==
  LET costs == {p[2] : p \in {q \in Relax({<<from, 0>>}, Cardinality(AllIds) - 1) :
                                q[1] = to}}
  IN  IF costs = {} THEN -1 ELSE Min(costs)

DijkstraEnded == run.alg = "dijkstra" /\ run.status # "running"

\* C3: on a graph built by add_node and add_edge between existing nodes with
\* non-negative weights, the weight dijkstra(from, to) returns is at most the
\* summed weight of every path from from to to.
C3_DijkstraMinimal ==
  (WellFormed /\ DijkstraEnded /\ run.result # None)
  => run.result[1][1] <= MinCost(run.from, run.to)

\* C4: dijkstra(from, to) returns nothing, and does not fail, whenever to is
\* not reachable from from.
C4_DijkstraNoneWhenUnreachable ==
  (DijkstraEnded /\ run.to \notin Reach(run.from))
  => (run.status = "done" /\ run.result = None)

\* C20: the pending set of dijkstra never holds two entries of equal weight.
\* In every turn of the loop the entries that were pending and not popped
\* stay as they are, and a node whose (weight, predecessor) record the turn
\* has written either has an entry of that weight in the set or was dropped
\* in favour of an entry of that weight for a different node, which is there;
\* of the nodes written with one weight in one turn, the entry is for the
\* one that comes first in neighbors order (the smallest identifier).
C20_EqualWeightDropped ==
  [][(run.alg = "dijkstra" /\ run.status = "running" /\ run'.alg = "dijkstra") =>
       /\ \A e \in run'.heap, f \in run'.heap : e[1] = f[1] => e = f
       /\ \A e \in run.heap :
            (\E f \in run.heap : f[1] < e[1]) => e \in run'.heap
       /\ \A n \in DOMAIN run.weights :
            (run'.weights[n] # run.weights[n]) =>
              \E e \in run'.heap :
                /\ e[1] = run'.weights[n][1][1]
                /\ e[2] # n => <<e[1], n>> \notin run'.heap
       /\ \A e \in run'.heap \ run.heap :
            \A n \in DOMAIN run.weights :
              (run'.weights[n] # run.weights[n] /\ run'.weights[n][1][1] = e[1])
                => e[2] <= n]_vars

\* C20 witness: on a graph with positive weights, node n has a recorded
\* weight c, the set holds an entry of weight c for a different node and
\* none for n (entries are popped in ascending weight, so n was not popped).
C20_Witness ==
  /\ run.alg = "dijkstra" /\ run.status = "running"
  /\ WellFormed
  /\ \A e \in DOMAIN edges : edges[e] >= 1
  /\ \E n \in DOMAIN run.weights :
       /\ n # run.from
       /\ run.weights[n] # None
       /\ <<run.weights[n][1][1], n>> \notin run.heap
       /\ \E e \in run.heap : e[1] = run.weights[n][1][1] /\ e[2] # n

\* C21: in a turn of the dijkstra loop that expands a node, the weight added
\* to each edge is the weight stored in the extracted entry (whatever the
\* node's record says); a neighbour is left alone exactly when its record
\* holds a strictly smaller weight; otherwise its record becomes (candidate,
\* expanded node) and the candidate is handed to the set again, which then
\* holds an entry of that weight. No other record changes.
C21_StalenessAtInsertion ==
  [][(run.alg = "dijkstra" /\ run.status = "running" /\ run'.alg = "dijkstra"
        /\ run.heap # {} /\ run'.status = "running") =>
       LET first == CHOOSE e \in run.heap : \A f \in run.heap : e[1] <= f[1]
           ns == neighbors(first[2])
           nb == {ns[i][1] : i \in 1 .. Len(ns)}
       IN  /\ \A i \in 1 .. Len(ns) :
                LET n == ns[i][1]
                    candidate == first[1] + ns[i][2]
                IN  IF run.weights[n] # None /\ run.weights[n][1][1] < candidate
                    THEN run'.weights[n] = run.weights[n]
                    ELSE /\ run'.weights[n] = Some(<<candidate, first[2]>>)
                         /\ \E e \in run'.heap : e[1] = candidate
           /\ \A n \in (DOMAIN run.weights) \ nb : run'.weights[n] = run.weights[n]]_vars

\* C21 witness: on a graph with positive weights, node n was recorded from an
\* entry of its predecessor p whose weight was greater than the weight p's
\* record holds, and another record holds a weight equal to the candidate
\* that overwrote it.
C21_Witness ==
  /\ run.alg = "dijkstra" /\ WellFormed
  /\ \A e \in DOMAIN edges : edges[e] >= 1
  /\ \E n \in DOMAIN run.weights, p \in DOMAIN run.weights :
       /\ n # p
       /\ run.weights[n] # None /\ run.weights[p] # None
       /\ run.weights[n][1][2] = p
       /\ run.weights[n][1][1] > run.weights[p][1][1] + edges[EdgeNew(p, n)]

\* C24: on a graph built by add_node and add_edge between existing nodes with
\* non-negative weights (the drawn weights, zero included), every dijkstra
\* call ends: its loop never comes back to a (heap, weights) pair it has
\* started a turn with, and the walk along the predecessors ends.
C24_DijkstraTerminates ==
  (run.alg = "dijkstra" /\ WellFormed) => run.status # "hang"

\* C25: on a graph with positive weights built by add_node and add_edge
\* between existing nodes, dijkstra(from, to) returns a result whenever to
\* is reachable from from.
C25_DijkstraFindsReachable ==
  (WellFormed /\ DijkstraEnded /\ run.to \in Reach(run.from)
     /\ \A e \in DOMAIN edges : edges[e] >= 1)
  => (run.status = "done" /\ run.result # None)

\* The summed edge weight along a path of the graph.
RECURSIVE PathWeight(_)
PathWeight(p) ==
  IF Len(p) <= 1 THEN 0
  ELSE edges[EdgeNew(p[1], p[2])] + PathWeight(Tail(p))

\* C26: whenever dijkstra(from, to) returns (weight, path), the path starts
\* with from, ends with to, joins consecutive identifiers by edges, and the
\* weight is the sum of the edge weights along it. (Stated for from # to on
\* graphs built by add_node and add_edge between existing nodes; the case
\* from = to is that of C27.)
C26_WeightIsPathSum ==
  (WellFormed /\ DijkstraEnded /\ run.result # None /\ run.from # run.to)
  => /\ IsPath(run.result[1][2], run.from, run.to)
     /\ run.result[1][1] = PathWeight(run.result[1][2])

\* C27: on a graph built by add_node and add_edge between existing nodes,
\* dijkstra(a, a) returns weight zero and the path [a], the path that
\* search(a, a, mode) returns.
C27_DijkstraSameNode ==
  (WellFormed /\ DijkstraEnded /\ run.from = run.to)
  => /\ run.result = Some(<<0, <<run.from>>>>)
     /\ \A mode \in Modes :
          Some(run.result[1][2]) = SearchCall(run.from, run.from, mode).result

\* ---- claims about astar (SpecAstar) -----------------------------------------

\* C17: every path astar returns starts with from, ends with to, joins
\* consecutive identifiers by edges and repeats no identifier; to is dequeued
\* at most once, as the last dequeue of the call, and a call that ends
\* normally after dequeuing to returns a path; on the test graph with the
\* test's heuristic astar(0, 4) returns [0,1,4].
C17_AstarPath ==
  run.alg = "astar" =>
    /\ run.result # None =>
         /\ IsPath(PathOf(run), run.from, run.to)
         /\ NoDups(PathOf(run))
         /\ run.dequeued # <<>> /\ run.dequeued[Len(run.dequeued)] = run.to
    /\ \A i \in 1 .. (Len(run.dequeued) - 1) : run.dequeued[i] # run.to
    /\ run.to \in Range(run.dequeued) => run.status # "running"
    /\ (run.status = "done" /\ run.to \in Range(run.dequeued)) => run.result # None
    /\ (IsAstarFixture /\ run.from = 0 /\ run.to = 4 /\ run.status # "running")
         => run.result = Some(<<0, 1, 4>>)

\* C17 witness: astar(0, 4) on the test graph has returned [0,1,4] after
\* dequeuing 0, 1 and 4.
C17_Witness ==
  /\ IsAstarFixture /\ run.alg = "astar" /\ run.from = 0 /\ run.to = 4
  /\ run.status = "done"
  /\ run.result = Some(<<0, 1, 4>>)
  /\ run.dequeued = <<0, 1, 4>>

\* C18: astar(from, to, heuristic) returns nothing, and does not fail,
\* whenever to is not reachable from from, for every heuristic.
C18_AstarNoneWhenUnreachable ==
  (run.alg = "astar" /\ run.status # "running" /\ run.to \notin Reach(run.from))
  => (run.status = "done" /\ run.result = None)

\* C19: during one astar call no node, from included, enters the priority
\* structure more than once.
C19_InsertedAtMostOnce ==
  run.alg = "astar" => NoDups(run.entered)

\* The heuristic value of node n for the edge from its back-pointer.
DiscoveryKey(st, n) ==
  Heuristic(st.heuristic, nodes[n], edges[EdgeNew(st.visited[n][1], n)])

\* C23: in astar the key of every pending entry is 0 for from and, for any
\* other node, the heuristic value of that node's value and the edge from
\* its back-pointer, so it is fixed when the node is enqueued and contains
\* no path cost; each dequeue takes an entry of least key; keys of pending
\* entries are pairwise different (an insertion with the key of a pending
\* entry is dropped), and every node handed to the set is marked as queued
\* whether or not its entry was dropped.
C23_AstarKeys ==
  [][run'.alg = "astar" =>
       /\ \A e \in run'.heap :
            IF e[2] = run'.from THEN e[1] = 0
            ELSE /\ e[2] \in DOMAIN nodes
                 /\ run'.visited[e[2]] # None
                 /\ e[1] = DiscoveryKey(run', e[2])
       /\ \A e \in run'.heap, f \in run'.heap : e[1] = f[1] => e = f
       /\ \A i \in 2 .. Len(run'.pushed) : run'.visited[run'.pushed[i][2]] # None
       /\ (run.alg = "astar" /\ Len(run'.dequeued) = Len(run.dequeued) + 1) =>
            \E e \in run.heap :
              /\ e[2] = run'.dequeued[Len(run'.dequeued)]
              /\ \A f \in run.heap : e[1] <= f[1]]_vars

\* C28: on a graph built by add_node and add_edge between existing nodes,
\* astar(from, to, heuristic) returns a path whenever to is reachable from
\* from, for every heuristic.
C28_AstarFindsReachable ==
  (WellFormed /\ run.alg = "astar" /\ run.status # "running"
     /\ run.to \in Reach(run.from))
  => (run.status = "done" /\ run.result # None)

\* ---- claims about the working arrays of the algorithms ----------------------

\* C29: on a graph left by add_node, add_edge and remove_node calls, a visit,
\* search, dijkstra or astar call whose identifiers are present nodes never
\* indexes its per-node working array (of num_nodes() entries) out of range.
C29_NoOutOfRange ==
  run # Idle => run.status # "panic"

====
